---- MODULE Spec2Model ----
(***************************************************************************)
(* MuSig2 signing Context and Session (btcec/schnorr/musig2/context.go)    *)
(* together with the key aggregation helpers of silentpayments.go.         *)
(*                                                                         *)
(* Curve points are represented by their discrete logarithm with respect   *)
(* to the generator G in a group of prime order GroupOrder, so x stands    *)
(* for the point x*G and 0 for the point at infinity.  A point and its     *)
(* negation share the x coordinate; exactly one of the two has an odd y.   *)
(***************************************************************************)
EXTENDS Integers, Sequences, FiniteSets, TLC

(***************************************************************************)
(* Bounds of the model.                                                    *)
(***************************************************************************)
MaxSigners == 3
MaxHandOffs == 2

(***************************************************************************)
(* The group and its primitives.                                           *)
(***************************************************************************)
GroupOrder == 7

Nil == << >>

Some(x) == << x >>

Neg(x) == (GroupOrder - x) % GroupOrder

Add(x, y) == (x + y) % GroupOrder

Mul(x, y) == (x * y) % GroupOrder

HasOddY(p) == p > (GroupOrder \div 2)

\* schnorr.SerializePubKey: the x-only serialization, shared by p and -p.
SerializePubKey(p) == IF HasOddY(p) THEN Neg(p) ELSE p

\* schnorr.ParsePubKey: lifts x-only bytes to the point with even y.
ParsePubKey(b) == b

\* PrivateKey.PubKey: d*G.
PubKeyOf(d) == d

\* PublicKey.IsEqual compares both coordinates.
IsEqual(a, b) == a = b

RECURSIVE HashMix(_, _)
HashMix(h, data) ==
    IF data = << >> THEN h
    ELSE HashMix((h * 5 + Head(data) + 1) % 97, Tail(data))

\* chainhash.TaggedHash over a byte string given as a sequence of values.
TaggedHash(tag, data) == HashMix(tag, data)

\* ModNScalar.SetByteSlice of a hash: a scalar, zero with negligible
\* probability only.
HashToScalar(h) == 1 + (h % (GroupOrder - 1))

KeyAggTagList == 11

KeyAggTagCoeff == 13

NonceCoefTag == 17

ChallengeTag == 19

(***************************************************************************)
(* Key aggregation (silentpayments.go).                                    *)
(***************************************************************************)
\* sortableKeys.Less
KeyLess(a, b) == SerializePubKey(a) < SerializePubKey(b)

IsSorted(keys) ==
    \A i \in 1 .. (Len(keys) - 1) : ~KeyLess(keys[i + 1], keys[i])

RECURSIVE InsertKey(_, _)
InsertKey(sorted, k) ==
    IF sorted = << >> THEN << k >>
    ELSE IF KeyLess(k, sorted[Len(sorted)])
         THEN Append(InsertKey(SubSeq(sorted, 1, Len(sorted) - 1), k),
                     sorted[Len(sorted)])
         ELSE Append(sorted, k)

RECURSIVE InsertionSort(_)
InsertionSort(keys) ==
    IF keys = << >> THEN << >>
    ELSE InsertKey(InsertionSort(SubSeq(keys, 1, Len(keys) - 1)),
                   keys[Len(keys)])

\* A sortKeys that hands the keys back in the order it got them.
sortKeys_Unsorted(keys) == keys

\* sortKeys: sorts the backing array of the argument and returns it.
sortKeys(keys) == IF IsSorted(keys) THEN keys ELSE InsertionSort(keys)

SerializeAll(keys) == [i \in 1 .. Len(keys) |-> SerializePubKey(keys[i])]

keyHashFingerprint(keys, sort) ==
    LET ks == IF sort THEN sortKeys(keys) ELSE keys
    IN  TaggedHash(KeyAggTagList, SerializeAll(ks))

keyBytesEqual(a, b) == SerializePubKey(a) = SerializePubKey(b)

\* A secondUniqueKeyIndex that compares the points, not their x-only
\* serializations.
secondUniqueKeyIndex_ByPoint(keySet) ==
    LET differing == {i \in 1 .. Len(keySet) : keySet[i] # keySet[1]}
    IN  IF differing = {} THEN -1
        ELSE (CHOOSE i \in differing : \A j \in differing : i <= j) - 1

\* Indices are those of the Go slice: 0-based, -1 when all keys are equal.
secondUniqueKeyIndex(keySet) ==
    LET differing == {i \in 1 .. Len(keySet) :
                        ~keyBytesEqual(keySet[i], keySet[1])}
    IN  IF differing = {} THEN -1
        ELSE (CHOOSE i \in differing : \A j \in differing : i <= j) - 1

aggregationCoefficient(keySet, targetKey, keysHash, secondKeyIdx) ==
    IF secondKeyIdx # -1 /\ keyBytesEqual(keySet[secondKeyIdx + 1], targetKey)
    THEN 1
    ELSE HashToScalar(TaggedHash(KeyAggTagCoeff,
                                 << keysHash, SerializePubKey(targetKey) >>))

RECURSIVE SumBlinded(_, _, _, _)
SumBlinded(keys, i, keysHash, idx) ==
    IF i > Len(keys) THEN 0
    ELSE Add(Mul(aggregationCoefficient(keys, keys[i], keysHash, idx), keys[i]),
             SumBlinded(keys, i + 1, keysHash, idx))

AggregateKeys(keys, sort) ==
    LET ks == IF sort THEN sortKeys(keys) ELSE keys
        keyHash == keyHashFingerprint(ks, sort)
        idx == secondUniqueKeyIndex(ks)
    IN  SumBlinded(ks, 1, keyHash, idx)

(***************************************************************************)
(* Tweaks of the aggregated key.  A tweak is [Tweak, IsXOnly]; the result  *)
(* carries the final key, the accumulated parity factor and the            *)
(* accumulated tweak.  The factor -1 is represented by GroupOrder - 1.     *)
(***************************************************************************)
RECURSIVE ApplyTweaks(_, _)
ApplyTweaks(acc, tweaks) ==
    IF tweaks = << >> THEN acc
    ELSE LET t == Head(tweaks)
             g == IF t.IsXOnly /\ HasOddY(acc.key) THEN Neg(1) ELSE 1
         IN  ApplyTweaks([key |-> Add(Mul(g, acc.key), t.Tweak),
                          parityAcc |-> Mul(g, acc.parityAcc),
                          tweakAcc |-> Add(t.Tweak, Mul(g, acc.tweakAcc))],
                         Tail(tweaks))

\* AggregateKeys with the WithKeyTweaks option.
AggregateKeysTweaked(keys, sort, tweaks) ==
    ApplyTweaks([key |-> AggregateKeys(keys, sort), parityAcc |-> 1,
                 tweakAcc |-> 0], tweaks)

(***************************************************************************)
(* Nonces, the partial signer, the combiner and BIP-340 verification.      *)
(***************************************************************************)
\* GenNonces: two secret scalars and the two points they generate.
Nonces(k1, k2) == [SecNonce |-> << k1, k2 >>, PubNonce |-> << k1, k2 >>]

RECURSIVE SumNonces(_, _)
SumNonces(pubNonces, j) ==
    IF pubNonces = << >> THEN 0
    ELSE Add(Head(pubNonces)[j], SumNonces(Tail(pubNonces), j))

AggregateNonces(pubNonces) ==
    IF pubNonces = << >>
    THEN [err |-> "EmptyNonceSet", nonce |-> << 0, 0 >>]
    ELSE [err |-> "nil",
          nonce |-> << SumNonces(pubNonces, 1), SumNonces(pubNonces, 2) >>]

NonceCoefficient(combinedNonce, key, m) ==
    HashToScalar(TaggedHash(NonceCoefTag,
        << combinedNonce[1], combinedNonce[2], SerializePubKey(key), m >>))

Challenge(r, key, m) ==
    HashToScalar(TaggedHash(ChallengeTag, << r, SerializePubKey(key), m >>))

\* The effective nonce point R = R1 + b*R2.
EffectiveNonce(combinedNonce, key, m) ==
    Add(combinedNonce[1],
        Mul(NonceCoefficient(combinedNonce, key, m), combinedNonce[2]))

KeyInSet(key, keySet) ==
    \E i \in 1 .. Len(keySet) : keyBytesEqual(keySet[i], key)

\* The partial signer: s = k1 + b*k2 + e*a*d with the nonce and the key
\* negated as the parities of R, of the signer's key and of the aggregated
\* key require.
Sign(secNonce, privKey, combinedNonce, keySet, m, tweaks) ==
    LET agg == AggregateKeysTweaked(keySet, FALSE, tweaks)
        pub == PubKeyOf(privKey)
        b == NonceCoefficient(combinedNonce, agg.key, m)
        nonce == EffectiveNonce(combinedNonce, agg.key, m)
        flipNonce == HasOddY(nonce)
        k1 == IF flipNonce THEN Neg(secNonce[1]) ELSE secNonce[1]
        k2 == IF flipNonce THEN Neg(secNonce[2]) ELSE secNonce[2]
        r == SerializePubKey(nonce)
        e == Challenge(r, agg.key, m)
        a == aggregationCoefficient(keySet, pub,
                                    keyHashFingerprint(keySet, FALSE),
                                    secondUniqueKeyIndex(keySet))
        paritySignKey == IF HasOddY(pub) THEN Neg(1) ELSE 1
        parityCombinedKey == IF HasOddY(agg.key) THEN Neg(1) ELSE 1
        d == Mul(Mul(Mul(parityCombinedKey, paritySignKey), agg.parityAcc),
                 privKey)
        s == Add(Add(k1, Mul(b, k2)), Mul(Mul(e, a), d))
    IN  IF ~KeyInSet(pub, keySet)
        THEN [err |-> "ErrSignerNotInKeySet", sig |-> Nil]
        ELSE IF nonce = 0
        THEN [err |-> "ErrNoncePointAtInfinity", sig |-> Nil]
        ELSE [err |-> "nil", sig |-> Some([S |-> s, R |-> r])]

RECURSIVE SumSigs(_)
SumSigs(sigs) ==
    IF sigs = << >> THEN 0 ELSE Add(Head(sigs).S, SumSigs(Tail(sigs)))

\* CombineSigs: opts is Nil or Some of the WithTweakedCombine arguments.
CombineSigs(r, sigs, opts) ==
    LET sum == SumSigs(sigs)
    IN  IF opts = Nil THEN [R |-> r, S |-> sum]
        ELSE LET o == opts[1]
                 agg == AggregateKeysTweaked(o.keySet, o.sort, o.tweaks)
                 e == Challenge(r, agg.key, o.msg)
                 g == IF HasOddY(agg.key) THEN Neg(1) ELSE 1
             IN  [R |-> r, S |-> Add(sum, Mul(e, Mul(g, agg.tweakAcc)))]

\* schnorr.Signature.Verify: s*G - e*P has even y and the x coordinate r.
Verify(sig, m, pubKey) ==
    LET p == ParsePubKey(SerializePubKey(pubKey))
        e == Challenge(sig.R, p, m)
        rv == Add(sig.S, Neg(Mul(e, p)))
    IN  /\ rv # 0
        /\ ~HasOddY(rv)
        /\ rv = sig.R

(***************************************************************************)
(* Context (context.go).                                                   *)
(***************************************************************************)
NewContext(signingKey, signers, shouldSort, tweaks) ==
    LET pubKey == ParsePubKey(SerializePubKey(PubKeyOf(signingKey)))
        keyFound == \E i \in 1 .. Len(signers) : IsEqual(signers[i], pubKey)
        keysHash == keyHashFingerprint(signers, shouldSort)
        \* keyHashFingerprint has sorted the backing array of signers.
        keySet == IF shouldSort THEN sortKeys(signers) ELSE signers
        uniqueKeyIndex == secondUniqueKeyIndex(keySet)
        agg == AggregateKeysTweaked(keySet, shouldSort, tweaks)
    IN  IF ~keyFound
        THEN [err |-> "ErrSignerNotInKeySet", ctx |-> Nil]
        ELSE [err |-> "nil",
              ctx |-> Some([signingKey |-> signingKey,
                            pubKey |-> pubKey,
                            keySet |-> keySet,
                            combinedKey |-> agg.key,
                            uniqueKeyIndex |-> uniqueKeyIndex,
                            keysHash |-> keysHash,
                            tweaks |-> tweaks,
                            shouldSort |-> shouldSort])]

(***************************************************************************)
(* The inputs the environment draws from.                                  *)
(***************************************************************************)
\* The key lists of 1 .. MaxSigners signers, of the even-y public keys 2 and
\* 3: i copies of 3 followed by copies of 2, so that lists that are not
\* sorted, lists with a repeated key and lists of equal keys all occur.
KeyLists ==
    {[j \in 1 .. n |-> IF j <= i THEN 3 ELSE 2] :
        << n, i >> \in {x \in (1 .. MaxSigners) \X (0 .. MaxSigners) :
                         x[2] <= x[1]}}

XOnlyTweak == [Tweak |-> 1, IsXOnly |-> TRUE]

PlainTweak == [Tweak |-> 2, IsXOnly |-> FALSE]

LocalNonces == {Nonces(2, 1)}

PeerNonces == {<< 1, 2 >>, << 3, 1 >>}

ZeroMsg == 0

Msgs == {1, 2}

\* The Contexts a Session is created from.  The signing key 2 has an even-y
\* public key and 5 an odd-y one with the same x; the first signs for the
\* plain aggregated key, the second for a tweaked one.
ContextInputs ==
    {<< 2, ks, sort, << >> >> : ks \in KeyLists, sort \in BOOLEAN}
    \cup {<< 5, ks, TRUE, << XOnlyTweak >> >> : ks \in KeyLists}

Contexts ==
    {NewContext(c[1], c[2], c[3], c[4]).ctx[1] :
        c \in {x \in ContextInputs :
                 NewContext(x[1], x[2], x[3], x[4]).err = "nil"}}

(***************************************************************************)
(* Session (context.go).  A Session is a record of its fields, of the      *)
(* result its last call returned (ret), of whether a call has panicked     *)
(* (crashed) and of the number of times the secret nonce was handed to the *)
(* partial signer (handOffs).  Each method is an operator from the Session *)
(* before the call to the Session after it.                                *)
(***************************************************************************)
Result(op, err, done, val) ==
    [op |-> op, err |-> err, done |-> done, val |-> val]

\* Context.NewSession
NewSession(c, nonces) ==
    [ctx |-> c,
     localNonces |-> Some(nonces),
     pubNonces |-> << nonces.PubNonce >>,
     combinedNonce |-> Nil,
     msg |-> ZeroMsg,
     ourSig |-> Nil,
     sigs |-> << >>,
     finalSig |-> Nil,
     ret |-> Result("NewSession", "nil", FALSE, Nil),
     crashed |-> FALSE,
     handOffs |-> 0]

NumSigners(s) == Len(s.ctx.keySet)

\* Session.PublicNonce dereferences localNonces.
PublicNonce(s) ==
    IF s.localNonces = Nil
    THEN [s EXCEPT !.crashed = TRUE,
                   !.ret = Result("PublicNonce", "panic", FALSE, Nil)]
    ELSE [s EXCEPT !.ret = Result("PublicNonce", "nil", FALSE,
                                  Some(s.localNonces[1].PubNonce))]

NumRegisteredNonces(s) == Len(s.pubNonces)

\* A RegisterPubNonce that takes the round to be complete only once it holds
\* more nonces than there are signers.
HaveAllNonces_Exceeded(s, nonces) == Len(nonces) > NumSigners(s)

\* len(s.pubNonces) == len(s.ctx.keySet)
HaveAllNonces(s, nonces) == Len(nonces) = NumSigners(s)

RegisterPubNonce(s, nonce) ==
    IF HaveAllNonces(s, s.pubNonces)
    THEN [s EXCEPT !.ret = Result("RegisterPubNonce", "nil", FALSE, Nil)]
    ELSE LET appended == Append(s.pubNonces, nonce)
             haveAllNonces == HaveAllNonces(s, appended)
             agg == AggregateNonces(appended)
         IN  IF haveAllNonces /\ agg.err # "nil"
             THEN [s EXCEPT !.pubNonces = appended,
                            !.ret = Result("RegisterPubNonce", agg.err,
                                           FALSE, Nil)]
             ELSE [s EXCEPT !.pubNonces = appended,
                            !.combinedNonce = IF haveAllNonces
                                              THEN Some(agg.nonce)
                                              ELSE s.combinedNonce,
                            !.ret = Result("RegisterPubNonce", "nil",
                                           haveAllNonces, Nil)]

\* A Sign that forgets to blank the nonces.
KeepNonces(nonces) == nonces

\* s.localNonces = nil, after the partial signer has returned.
BlankNonces(nonces) == Nil

\* A Sign that blanks the nonces before it checks for the combined nonce.
SessionSign_BlankFirst(s, m) ==
    LET recorded == [s EXCEPT !.msg = m, !.localNonces = Nil]
    IN  IF s.localNonces = Nil
        THEN [recorded EXCEPT !.ret = Result("Sign", "ErrSigningContextReuse",
                                             FALSE, Nil)]
        ELSE IF s.combinedNonce = Nil
        THEN [recorded EXCEPT !.ret = Result("Sign",
                                             "ErrCombinedNonceUnavailable",
                                             FALSE, Nil)]
        ELSE LET r == Sign(s.localNonces[1].SecNonce, s.ctx.signingKey,
                           s.combinedNonce[1], s.ctx.keySet, m, s.ctx.tweaks)
                 used == [recorded EXCEPT
                            !.handOffs = IF s.handOffs < MaxHandOffs
                                         THEN s.handOffs + 1 ELSE s.handOffs]
             IN  IF r.err # "nil"
                 THEN [used EXCEPT !.ret = Result("Sign", r.err, FALSE, Nil)]
                 ELSE [used EXCEPT !.ourSig = r.sig,
                                   !.sigs = Append(s.sigs, r.sig[1]),
                                   !.ret = Result("Sign", "nil", FALSE, r.sig)]

\* A Sign that blanks the nonces only once the partial signer has succeeded.
SessionSign_BlankOnSuccess(s, m) ==
    LET recorded == [s EXCEPT !.msg = m]
    IN  IF s.localNonces = Nil
        THEN [recorded EXCEPT !.ret = Result("Sign", "ErrSigningContextReuse",
                                             FALSE, Nil)]
        ELSE IF s.combinedNonce = Nil
        THEN [recorded EXCEPT !.ret = Result("Sign",
                                             "ErrCombinedNonceUnavailable",
                                             FALSE, Nil)]
        ELSE LET r == Sign(s.localNonces[1].SecNonce, s.ctx.signingKey,
                           s.combinedNonce[1], s.ctx.keySet, m, s.ctx.tweaks)
                 used == [recorded EXCEPT
                            !.handOffs = IF s.handOffs < MaxHandOffs
                                         THEN s.handOffs + 1 ELSE s.handOffs]
             IN  IF r.err # "nil"
                 THEN [used EXCEPT !.ret = Result("Sign", r.err, FALSE, Nil)]
                 ELSE [used EXCEPT !.localNonces = BlankNonces(s.localNonces),
                                   !.ourSig = r.sig,
                                   !.sigs = Append(s.sigs, r.sig[1]),
                                   !.ret = Result("Sign", "nil", FALSE, r.sig)]

\* Session.Sign (the name Sign is the partial signer's).
SessionSign(s, m) ==
    LET recorded == [s EXCEPT !.msg = m]
    IN  IF s.localNonces = Nil
        THEN [recorded EXCEPT !.ret = Result("Sign", "ErrSigningContextReuse",
                                             FALSE, Nil)]
        ELSE IF s.combinedNonce = Nil
        THEN [recorded EXCEPT !.ret = Result("Sign",
                                             "ErrCombinedNonceUnavailable",
                                             FALSE, Nil)]
        ELSE LET r == Sign(s.localNonces[1].SecNonce, s.ctx.signingKey,
                           s.combinedNonce[1], s.ctx.keySet, m, s.ctx.tweaks)
                 used == [recorded EXCEPT
                            !.localNonces = BlankNonces(s.localNonces),
                            !.handOffs = IF s.handOffs < MaxHandOffs
                                         THEN s.handOffs + 1 ELSE s.handOffs]
             IN  IF r.err # "nil"
                 THEN [used EXCEPT !.ret = Result("Sign", r.err, FALSE, Nil)]
                 ELSE [used EXCEPT !.ourSig = r.sig,
                                   !.sigs = Append(s.sigs, r.sig[1]),
                                   !.ret = Result("Sign", "nil", FALSE, r.sig)]

\* A CombineSig that counts one signature too many.
HaveAllSigs_OneMore(s, sigs) == Len(sigs) = NumSigners(s) + 1

\* len(s.sigs) == len(s.ctx.keySet)
HaveAllSigs(s, sigs) == Len(sigs) = NumSigners(s)

\* The options CombineSig passes to CombineSigs.
CombineOpts(s) ==
    IF Len(s.ctx.tweaks) # 0
    THEN Some([msg |-> s.msg, keySet |-> s.ctx.keySet,
               tweaks |-> s.ctx.tweaks, sort |-> s.ctx.shouldSort])
    ELSE Nil

\* What CombineSigs leaves in the backing array of the Context's key set:
\* with WithTweakedCombine it aggregates the keys, which sorts the slice it is
\* handed in place when the sort flag is set.
KeySetSortedAnyway(s) == sortKeys(s.ctx.keySet)

KeySetAfterCombine(s) ==
    IF Len(s.ctx.tweaks) # 0 /\ s.ctx.shouldSort
    THEN sortKeys(s.ctx.keySet)
    ELSE s.ctx.keySet

\* A CombineSig that skips the verification of the final signature.
VerifyFinal_Skipped(s, final) == TRUE

\* finalSig.Verify(s.msg[:], s.ctx.combinedKey)
VerifyFinal(s, final) == Verify(final, s.msg, s.ctx.combinedKey)

CombineSig(s, sig) ==
    IF HaveAllSigs(s, s.sigs)
    THEN [s EXCEPT !.ret = Result("CombineSig", "ErrAlredyHaveAllSigs",
                                  FALSE, Nil)]
    ELSE LET appended == Append(s.sigs, sig)
             haveAllSigs == HaveAllSigs(s, appended)
         IN  IF ~haveAllSigs
             THEN [s EXCEPT !.sigs = appended,
                            !.ret = Result("CombineSig", "nil", FALSE, Nil)]
             ELSE IF s.ourSig = Nil
             THEN \* s.ourSig.R dereferences a nil pointer.
                  [s EXCEPT !.sigs = appended,
                            !.crashed = TRUE,
                            !.ret = Result("CombineSig", "panic", FALSE, Nil)]
             ELSE LET final == CombineSigs(s.ourSig[1].R, appended,
                                           CombineOpts(s))
                  IN  IF ~VerifyFinal(s, final)
                      THEN [s EXCEPT !.sigs = appended,
                                     !.ctx.keySet = KeySetAfterCombine(s),
                                     !.ret = Result("CombineSig",
                                                    "ErrFinalSigInvalid",
                                                    FALSE, Nil)]
                      ELSE [s EXCEPT !.sigs = appended,
                                     !.ctx.keySet = KeySetAfterCombine(s),
                                     !.finalSig = Some(final),
                                     !.ret = Result("CombineSig", "nil",
                                                    TRUE, Nil)]

FinalSig(s) == s.finalSig

(***************************************************************************)
(* The partial signatures a peer can deliver to a Session: the honest      *)
(* signature of the signer at position j over the agreed message, once the *)
(* nonce round is complete, and a signature that is not one.               *)
(***************************************************************************)
RECURSIVE RemoveFirst(_, _)
RemoveFirst(keys, x) ==
    IF keys = << >> THEN << >>
    ELSE IF Head(keys) = x THEN Tail(keys)
    ELSE << Head(keys) >> \o RemoveFirst(Tail(keys), x)

PeerKeys(s) == RemoveFirst(s.ctx.keySet, s.ctx.pubKey)

PeerSig(s, j, m) ==
    Sign(s.pubNonces[j + 1], PeerKeys(s)[j], s.combinedNonce[1], s.ctx.keySet,
         m, s.ctx.tweaks)

BadSig == [S |-> 0, R |-> 1]

\* The message the signers have agreed to sign.
AgreedMsg == 1

DeliverableSigs(s) ==
    {BadSig} \cup
    (IF s.combinedNonce = Nil THEN {}
     ELSE LET signed == {PeerSig(s, j, AgreedMsg) :
                           j \in 1 .. Len(PeerKeys(s))}
          IN  {r.sig[1] : r \in {x \in signed : x.err = "nil"}})

(***************************************************************************)
(* Spec: one Session whose caller makes every call in every order, with    *)
(* every input.                                                            *)
(***************************************************************************)
\* sessions: the Sessions by their identity; network: what is in flight
\* between signers; signers: the key slice a caller of the key aggregation
\* owns; made: what the caller's last call of the key aggregation returned;
\* shares: the silent payment shares a caller holds.
VARIABLES sessions, network, signers, made, shares

vars == << sessions, network, signers, made, shares >>

keyVars == << signers, made, shares >>

\* No caller of the key aggregation or of the silent payment shares.
NoKeyCalls == signers = << >> /\ made = << >> /\ shares = << >>

Init ==
    /\ \E c \in Contexts, nonces \in LocalNonces :
          sessions = [i \in {1} |-> NewSession(c, nonces)]
    /\ network = {}
    /\ NoKeyCalls

\* The Sessions all point to the one Context they were created from, so what
\* a call leaves in the Context is what every Session sees.
Returns(i, after) ==
    /\ ~sessions[i].crashed
    /\ sessions' = [j \in DOMAIN sessions |->
                       IF j = i THEN after
                       ELSE [sessions[j] EXCEPT !.ctx = after.ctx]]
    /\ UNCHANGED << network, keyVars >>

CallPublicNonce(i) == Returns(i, PublicNonce(sessions[i]))

CallRegisterPubNonce(i) ==
    \E nonce \in PeerNonces :
        Returns(i, RegisterPubNonce(sessions[i], nonce))

CallSign(i) == \E m \in Msgs : Returns(i, SessionSign(sessions[i], m))

CallCombineSig(i) ==
    \E sig \in DeliverableSigs(sessions[i]) :
        Returns(i, CombineSig(sessions[i], sig))

Next ==
    \/ \E i \in DOMAIN sessions : CallPublicNonce(i)
    \/ \E i \in DOMAIN sessions : CallRegisterPubNonce(i)
    \/ \E i \in DOMAIN sessions : CallSign(i)
    \/ \E i \in DOMAIN sessions : CallCombineSig(i)

Spec == Init /\ [][Next]_vars

\* The Session of Spec.
Session == sessions[1]

(***************************************************************************)
(* Properties of one Session, checked under Spec.                          *)
(***************************************************************************)
\* A step of Spec that is a call of the method op.
Called(op) == sessions' # sessions /\ Session'.ret.op = op

\* C1: the secret nonce is handed to the partial signer by at most one Sign
\* call, and every Sign call after that one returns ErrSigningContextReuse
\* and produces no partial signature, whatever its message.
C1_NonceHandedOverOnce ==
    /\ [](Session.handOffs <= 1)
    /\ [][Session.handOffs >= 1 /\ Called("Sign") =>
            /\ Session'.ret.err = "ErrSigningContextReuse"
            /\ Session'.ret.val = Nil
            /\ Session'.ourSig = Session.ourSig
            /\ Session'.sigs = Session.sigs
            /\ Session'.handOffs = Session.handOffs]_vars

C1_Witness ==
    /\ Session.handOffs = 1
    /\ Session.ret.op = "Sign"
    /\ Session.ret.err = "ErrSigningContextReuse"

\* C2: a second Sign call on a Session that has signed returns
\* ErrSigningContextReuse and leaves ourSig and the collected partial
\* signatures as the first call left them.
C2_SecondSignLeavesSignatures ==
    [][Session.ourSig # Nil /\ Called("Sign") =>
         /\ Session'.ret.err = "ErrSigningContextReuse"
         /\ Session'.ourSig = Session.ourSig
         /\ Session'.sigs = Session.sigs]_vars

C2_Witness ==
    /\ Session.ourSig # Nil
    /\ Session.ourSig[1] \in {Session.sigs[k] : k \in 1 .. Len(Session.sigs)}
    /\ Session.ret.op = "Sign"
    /\ Session.ret.err = "ErrSigningContextReuse"

\* C3: the recorded message changes only in a Sign call that succeeds; a Sign
\* call that returns an error leaves it as it was.
C3_FailedSignKeepsMsg ==
    [][Called("Sign") /\ Session'.ret.err # "nil" =>
         Session'.msg = Session.msg]_vars

\* C4: the combined nonce is available if and only if the number of
\* registered public nonces equals the number of signers.
C4_CombinedNonceIffAllRegistered ==
    (Session.combinedNonce # Nil) <=>
        (NumRegisteredNonces(Session) = NumSigners(Session))

\* C5: whenever the Session holds as many partial signatures as there are
\* signers, its own included, and their combination verifies against the
\* aggregated key, the final signature is stored and FinalSig returns it.
C5_AllSigsGiveFinalSig ==
    ( /\ Session.ourSig # Nil
      /\ Len(Session.sigs) = NumSigners(Session)
      /\ \E k \in 1 .. Len(Session.sigs) : Session.sigs[k] = Session.ourSig[1]
      /\ Verify(CombineSigs(Session.ourSig[1].R, Session.sigs,
                            CombineOpts(Session)),
                Session.msg, Session.ctx.combinedKey) )
    => FinalSig(Session) # Nil

C7_ExcessSigRejected ==
    [][/\ (Called("CombineSig") /\ Len(Session.sigs) = NumSigners(Session)) =>
            /\ Session'.ret.err = "ErrAlredyHaveAllSigs"
            /\ Session'.sigs = Session.sigs
            /\ Session'.finalSig = Session.finalSig
       /\ Session.finalSig # Nil => Session'.finalSig = Session.finalSig]_vars

C7_Witness ==
    /\ Session.finalSig # Nil
    /\ Session.ret.op = "CombineSig"
    /\ Session.ret.err = "ErrAlredyHaveAllSigs"

\* C8: a final signature is stored only by the CombineSig call that brings
\* the collected signatures to the number of signers, and only if their
\* combination verifies against the aggregated key for the recorded message;
\* when it does not, the call returns ErrFinalSigInvalid and the final
\* signature stays empty from then on.
C8_FinalSigOnlyIfVerified ==
    [][/\ Session'.finalSig # Session.finalSig =>
            /\ Session.finalSig = Nil
            /\ Called("CombineSig")
            /\ Len(Session.sigs) < NumSigners(Session)
            /\ Len(Session'.sigs) = NumSigners(Session)
            /\ Session'.finalSig =
                 Some(CombineSigs(Session.ourSig[1].R, Session'.sigs,
                                  CombineOpts(Session)))
            /\ Verify(Session'.finalSig[1], Session'.msg,
                      Session.ctx.combinedKey)
       /\ ( /\ Called("CombineSig")
            /\ Len(Session.sigs) < NumSigners(Session)
            /\ Len(Session'.sigs) = NumSigners(Session)
            /\ Session.ourSig # Nil
            /\ ~Verify(CombineSigs(Session.ourSig[1].R, Session'.sigs,
                                   CombineOpts(Session)),
                       Session.msg, Session.ctx.combinedKey) ) =>
            /\ Session'.ret.err = "ErrFinalSigInvalid"
            /\ Session'.finalSig = Nil
       /\ (Session.finalSig = Nil /\ Len(Session.sigs) = NumSigners(Session))
            => Session'.finalSig = Nil]_vars

\* A combination that failed verification, and a later call.
C8_Witness ==
    /\ Session.finalSig = Nil
    /\ Session.ourSig # Nil
    /\ Len(Session.sigs) = NumSigners(Session)
    /\ Session.ret.op = "CombineSig"
    /\ Session.ret.err = "ErrAlredyHaveAllSigs"
    /\ ~Verify(CombineSigs(Session.ourSig[1].R, Session.sigs,
                           CombineOpts(Session)),
               Session.msg, Session.ctx.combinedKey)

C14_TrueIffAllRegistered ==
    [][Called("RegisterPubNonce") =>
          ( Session'.ret.done <=>
              NumRegisteredNonces(Session') = NumSigners(Session') )]_vars

\* C16: a stored final signature implies the local partial signature, the
\* local partial signature implies the combined nonce, and the combined nonce
\* implies that all the public nonces are registered.
C16_LifecycleOrdered ==
    /\ FinalSig(Session) # Nil => Session.ourSig # Nil
    /\ Session.ourSig # Nil => Session.combinedNonce # Nil
    /\ Session.combinedNonce # Nil =>
          NumRegisteredNonces(Session) = NumSigners(Session)

\* A Session of MaxSigners signers has gone through every stage.
C16_Witness ==
    /\ NumSigners(Session) = MaxSigners
    /\ FinalSig(Session) # Nil
    /\ Session.ourSig # Nil
    /\ Session.combinedNonce # Nil

\* C17: a Sign that has passed its two checks leaves the local nonces blank,
\* whether the partial signer succeeded or not; when the signer failed no
\* partial signature is stored or appended, and every Sign after it returns
\* ErrSigningContextReuse, so the Session never holds a signature of its own.
C17_NonceErasedWhateverTheSigner ==
    /\ [][( /\ Called("Sign")
            /\ Session.localNonces # Nil
            /\ Session.combinedNonce # Nil ) =>
              /\ Session'.localNonces = Nil
              /\ Session'.ret.err # "nil" =>
                    /\ Session'.ret.val = Nil
                    /\ Session'.ourSig = Nil
                    /\ Session'.sigs = Session.sigs]_vars
    /\ []( (Session.localNonces = Nil /\ Session.ourSig = Nil) =>
              \A m \in Msgs :
                  LET again == SessionSign(Session, m)
                  IN  /\ again.ret.err = "ErrSigningContextReuse"
                      /\ again.ourSig = Nil
                      /\ again.sigs = Session.sigs
                      /\ again.localNonces = Nil )

\* The partial signer has failed on the nonces it was handed, and a further
\* Sign has been turned down.
C17_Witness ==
    /\ Session.handOffs = 1
    /\ Session.localNonces = Nil
    /\ Session.ourSig = Nil
    /\ Session.ret.op = "Sign"
    /\ Session.ret.err = "ErrSigningContextReuse"

C21_PublicNonceAlwaysAnswers ==
    [][Called("PublicNonce") =>
          /\ ~Session'.crashed
          /\ Session'.ret.err = "nil"
          /\ Session'.ret.val = Some(Session.pubNonces[1])]_vars

\* C22: a CombineSig call that brings the number of collected signatures to
\* the number of signers finds the local partial signature in place, and
\* returns instead of crashing.
C22_CombineSigFindsOurSig ==
    [][( /\ Called("CombineSig")
         /\ Len(Session.sigs) < NumSigners(Session)
         /\ Len(Session'.sigs) = NumSigners(Session) ) =>
            /\ Session.ourSig # Nil
            /\ ~Session'.crashed
            /\ Session'.ret.err # "panic"]_vars

(***************************************************************************)
(* SpecPair: two signers, each with a Context over the same key list and   *)
(* one Session.  Each transmits its public nonce when the Session is       *)
(* created, signs the agreed message once its nonce round is complete and  *)
(* transmits the partial signature.  The network delivers what is in       *)
(* flight in any order.                                                    *)
(***************************************************************************)
\* The signing keys of the two signers: the public keys 2 and 3, each with
\* an even-y and an odd-y form.
PairSigningKeys == {<< 2, 3 >>, << 5, 3 >>, << 2, 4 >>, << 5, 4 >>}

PairKeyLists == {<< 2, 3 >>, << 3, 2 >>}

PairTweakLists == {<< >>, << XOnlyTweak >>, << PlainTweak >>}

PairNonces == {Nonces(2, 1), Nonces(4, 3)}

Peer(i) == 3 - i

\* What is in flight: a public nonce << R1, R2 >> or a partial signature
\* << S, R >>.
Message(to, kind, val) == [to |-> to, kind |-> kind, val |-> val]

EncodeSig(sig) == << sig.S, sig.R >>

DecodeSig(val) == [S |-> val[1], R |-> val[2]]

InitPair ==
    \E d \in PairSigningKeys, ks \in PairKeyLists, sort \in BOOLEAN,
       tw \in PairTweakLists, n1 \in PairNonces, n2 \in PairNonces :
        LET c == [i \in {1, 2} |-> NewContext(d[i], ks, sort, tw)]
            n == << n1, n2 >>
        IN  /\ \A i \in {1, 2} : c[i].err = "nil"
            /\ sessions = [i \in {1, 2} |-> NewSession(c[i].ctx[1], n[i])]
            /\ network = {Message(Peer(i), "nonce", n[i].PubNonce) :
                            i \in {1, 2}}
            /\ NoKeyCalls

DeliverNonce(i) ==
    \E packet \in network :
        /\ packet.to = i
        /\ packet.kind = "nonce"
        /\ ~sessions[i].crashed
        /\ sessions' = [sessions EXCEPT
                          ![i] = RegisterPubNonce(sessions[i], packet.val)]
        /\ network' = network \ {packet}
        /\ UNCHANGED keyVars

SignAgreed(i) ==
    LET after == SessionSign(sessions[i], AgreedMsg)
    IN  /\ ~sessions[i].crashed
        /\ sessions[i].combinedNonce # Nil
        /\ sessions[i].localNonces # Nil
        /\ sessions' = [sessions EXCEPT ![i] = after]
        /\ network' = IF after.ret.err = "nil"
                      THEN network \cup
                           {Message(Peer(i), "sig", EncodeSig(after.ret.val[1]))}
                      ELSE network
        /\ UNCHANGED keyVars

DeliverSig(i) ==
    \E packet \in network :
        /\ packet.to = i
        /\ packet.kind = "sig"
        /\ ~sessions[i].crashed
        /\ sessions' = [sessions EXCEPT
                          ![i] = CombineSig(sessions[i],
                                            DecodeSig(packet.val))]
        /\ network' = network \ {packet}
        /\ UNCHANGED keyVars

NextPair ==
    \/ \E i \in {1, 2} : DeliverNonce(i)
    \/ \E i \in {1, 2} : SignAgreed(i)
    \/ \E i \in {1, 2} : DeliverSig(i)

SpecPair == InitPair /\ [][NextPair]_vars

(***************************************************************************)
(* Properties of the two signers, checked under SpecPair.                  *)
(***************************************************************************)
\* C10: when both Sessions have signed the agreed message and everything in
\* flight is delivered, both hold a final signature, the two are identical
\* and verify against the aggregated key.
C10_BothEndWithTheFinalSig ==
    ( /\ network = {}
      /\ \A i \in {1, 2} : sessions[i].ourSig # Nil ) =>
        /\ \A i \in {1, 2} : FinalSig(sessions[i]) # Nil
        /\ FinalSig(sessions[1]) = FinalSig(sessions[2])
        /\ \A i \in {1, 2} :
              Verify(FinalSig(sessions[i])[1], AgreedMsg,
                     sessions[i].ctx.combinedKey)

(***************************************************************************)
(* SpecKeys: a caller that owns a slice of public keys and calls the key   *)
(* aggregation helpers and NewContext on it, in every order.  The slice is *)
(* passed by reference, so a call that sorts it sorts the caller's slice.  *)
(***************************************************************************)
\* The public keys 2 and 3 with their odd-y forms 5 and 4.
KeyPoints == {2, 3, 4, 5}

CallerSigningKeys == {2, 5}

CallerKeyLists == UNION {[1 .. n -> KeyPoints] : n \in 0 .. MaxSigners}

\* The caller's slice after a call that sorts the keys when sort is set.
InPlace(keys, sort) == IF sort THEN sortKeys(keys) ELSE keys

\* What a call returned: the method, the key list and the further arguments it
\* was called with, its error and its value.
Made(op, input, args, err, val) ==
    Some([op |-> op, input |-> input, args |-> args, err |-> err,
          val |-> val])

InitKeys ==
    /\ sessions = << >>
    /\ network = {}
    /\ signers \in CallerKeyLists
    /\ made = << >>
    /\ shares = << >>

CallSortKeys ==
    /\ signers' = sortKeys(signers)
    /\ made' = Made("sortKeys", signers, << >>, "nil", sortKeys(signers))
    /\ UNCHANGED << sessions, network, shares >>

CallKeyHashFingerprint ==
    \E sort \in BOOLEAN :
        /\ signers' = InPlace(signers, sort)
        /\ made' = Made("keyHashFingerprint", signers, << sort >>, "nil",
                        keyHashFingerprint(signers, sort))
        /\ UNCHANGED << sessions, network, shares >>

CallSecondUniqueKeyIndex ==
    /\ made' = Made("secondUniqueKeyIndex", signers, << >>, "nil",
                    secondUniqueKeyIndex(signers))
    /\ UNCHANGED << sessions, network, signers, shares >>

\* aggregationCoefficient as AggregateKeys calls it: with the fingerprint and
\* the second unique index of the key list.
CallAggregationCoefficient ==
    \E targetKey \in KeyPoints :
        LET keysHash == keyHashFingerprint(signers, FALSE)
            idx == secondUniqueKeyIndex(signers)
        IN  /\ made' = Made("aggregationCoefficient", signers,
                            << targetKey, keysHash, idx >>, "nil",
                            aggregationCoefficient(signers, targetKey,
                                                   keysHash, idx))
            /\ UNCHANGED << sessions, network, signers, shares >>

\* AggregateKeys has no error result.
CallAggregateKeys ==
    \E sort \in BOOLEAN :
        /\ signers' = InPlace(signers, sort)
        /\ made' = Made("AggregateKeys", signers, << sort >>, "nil",
                        AggregateKeys(signers, sort))
        /\ UNCHANGED << sessions, network, shares >>

\* NewContext returns before it sorts when the signer is not in the list.
CallNewContext ==
    \E signingKey \in CallerSigningKeys, sort \in BOOLEAN :
        LET r == NewContext(signingKey, signers, sort, << >>)
        IN  /\ signers' = InPlace(signers, sort /\ r.err = "nil")
            /\ made' = Made("NewContext", signers, << sort, signingKey >>,
                            r.err, r.ctx)
            /\ UNCHANGED << sessions, network, shares >>

NextKeys ==
    \/ CallSortKeys
    \/ CallKeyHashFingerprint
    \/ CallSecondUniqueKeyIndex
    \/ CallAggregationCoefficient
    \/ CallAggregateKeys
    \/ CallNewContext

SpecKeys == InitKeys /\ [][NextKeys]_vars

(***************************************************************************)
(* Properties of the key aggregation and of NewContext, checked under      *)
(* SpecKeys.                                                               *)
(***************************************************************************)
\* The last call was of the method op.
MadeBy(op) == made # << >> /\ made[1].op = op

\* The key lists that are a reordering of keys.
Permuted(keys) ==
    {[i \in 1 .. Len(keys) |-> keys[p[i]]] :
        p \in Permutations(1 .. Len(keys))}

SameXOnly(a, b) == SerializePubKey(a) = SerializePubKey(b)

\* C11: NewContext returns ErrSignerNotInKeySet, and no Context, exactly
\* when no key of the signer list has the x-only serialization of the signing
\* key's public key; the key in either y-parity form is accepted.
C11_SignerFoundByXOnly ==
    MadeBy("NewContext") =>
        LET call == made[1]
            pub == PubKeyOf(call.args[2])
            absent == \A i \in 1 .. Len(call.input) :
                          ~SameXOnly(call.input[i], pub)
        IN  /\ (call.err = "ErrSignerNotInKeySet") <=> absent
            /\ (call.val = Nil) <=> absent

\* C12: with sorting enabled the aggregated key and the fingerprint do not
\* depend on the order of the key list: every reordering of the list a call
\* was made with gives the value the call returned, and the Contexts built
\* from reorderings of one list have the same aggregated key and keysHash.
C12_SortedAggregationIgnoresOrder ==
    /\ ( MadeBy("AggregateKeys") /\ made[1].args[1] ) =>
          \A keys \in Permuted(made[1].input) :
              AggregateKeys(keys, TRUE) = made[1].val
    /\ ( MadeBy("keyHashFingerprint") /\ made[1].args[1] ) =>
          \A keys \in Permuted(made[1].input) :
              keyHashFingerprint(keys, TRUE) = made[1].val
    /\ ( MadeBy("NewContext") /\ made[1].args[1] /\ made[1].err = "nil" ) =>
          \A keys \in Permuted(made[1].input) :
              \A signingKey \in CallerSigningKeys :
                  LET other == NewContext(signingKey, keys, TRUE, << >>)
                  IN  other.err = "nil" =>
                        /\ other.ctx[1].combinedKey = made[1].val[1].combinedKey
                        /\ other.ctx[1].keysHash = made[1].val[1].keysHash

\* AggregateKeys has sorted a list of MaxSigners keys that was not in order
\* and holds a key twice.
C12_Witness ==
    /\ MadeBy("AggregateKeys")
    /\ made[1].args[1]
    /\ Len(made[1].input) = MaxSigners
    /\ ~IsSorted(made[1].input)
    /\ \E i, j \in 1 .. Len(made[1].input) :
          i # j /\ made[1].input[i] = made[1].input[j]
    /\ \E i, j \in 1 .. Len(made[1].input) :
          ~SameXOnly(made[1].input[i], made[1].input[j])

\* C15: key aggregation over an empty key list fails with InvalidKeyData and
\* returns no key, and over a non-empty list of equal keys it succeeds.
C15_EmptyKeyListRejected ==
    MadeBy("AggregateKeys") =>
        LET keys == made[1].input
        IN  /\ keys = << >> => made[1].err = "InvalidKeyData"
            /\ ( /\ keys # << >>
                 /\ \A i \in 1 .. Len(keys) : SameXOnly(keys[i], keys[1]) )
                  => made[1].err = "nil"

\* C19: secondUniqueKeyIndex returns the smallest index whose key differs by
\* x-only serialization from the key at index 0, and -1 when there is none;
\* the aggregation coefficient of a key is 1 when that index is not -1 and
\* the key has the x-only serialization of the key at that index, and the
\* tagged hash of the fingerprint and the key otherwise, which is what every
\* key of an all-equal key set gets.
C19_SecondUniqueIndexAndCoefficient ==
    /\ MadeBy("secondUniqueKeyIndex") =>
          LET keys == made[1].input
              idx == made[1].val
          IN  IF \A i \in 1 .. Len(keys) : SameXOnly(keys[i], keys[1])
              THEN idx = -1
              ELSE /\ idx \in 0 .. (Len(keys) - 1)
                   /\ ~SameXOnly(keys[idx + 1], keys[1])
                   /\ \A j \in 1 .. idx : SameXOnly(keys[j], keys[1])
    /\ MadeBy("aggregationCoefficient") =>
          LET keys == made[1].input
              targetKey == made[1].args[1]
              keysHash == made[1].args[2]
              hashed == HashToScalar(TaggedHash(KeyAggTagCoeff,
                            << keysHash, SerializePubKey(targetKey) >>))
              second == {i \in 1 .. Len(keys) :
                            /\ ~SameXOnly(keys[i], keys[1])
                            /\ \A j \in 1 .. (i - 1) :
                                  SameXOnly(keys[j], keys[1])}
          IN  IF \E i \in second : SameXOnly(keys[i], targetKey)
              THEN made[1].val = 1
              ELSE made[1].val = hashed

\* The coefficient of a key of a key set whose keys are all equal by x-only
\* serialization, though not all the same point.
C19_Witness ==
    /\ MadeBy("aggregationCoefficient")
    /\ Len(made[1].input) >= 2
    /\ made[1].args[3] = -1
    /\ \E i \in 1 .. Len(made[1].input) :
          made[1].input[i] # made[1].input[1]
    /\ \E i \in 1 .. Len(made[1].input) :
          made[1].input[i] = made[1].args[1]

\* C20: no call reorders the key slice of its caller, and sortKeys returns
\* the keys in sorted order.
C20_CallerSliceKept ==
    [][ /\ signers' = signers
        /\ made'[1].op = "sortKeys" =>
              /\ IsSorted(made'[1].val)
              /\ made'[1].val \in Permuted(signers) ]_vars

(***************************************************************************)
(* SpecShared: two Sessions created from one Context, whose caller makes   *)
(* every call on either Session in every order.                            *)
(***************************************************************************)
\* Contexts of two signers with a tweaked aggregated key, over a key list
\* that is not in sorted order, with and without sorting.
SharedContexts ==
    {NewContext(2, << 3, 2 >>, sort, << XOnlyTweak >>).ctx[1] :
        sort \in BOOLEAN}

InitShared ==
    /\ \E c \in SharedContexts :
          sessions = [i \in {1, 2} |-> NewSession(c, Nonces(2, 1))]
    /\ network = {}
    /\ NoKeyCalls

SpecShared == InitShared /\ [][Next]_vars

\* C13: no call on a Session changes the Context, and a call on one Session
\* of a Context leaves every other Session of that Context as it was, so each
\* Session moves only by its own calls.
C13_SessionsOfOneContextIndependent ==
    [][ \A i \in DOMAIN sessions :
          /\ sessions'[i].ctx = sessions[i].ctx
          /\ sessions'[i] # sessions[i] =>
                \A j \in DOMAIN sessions \ {i} : sessions'[j] = sessions[j]
      ]_vars

\* One Session has combined a final signature under a Context whose key set
\* is stored unsorted, while the other Session of the Context has not got
\* beyond its creation.
C13_Witness ==
    /\ DOMAIN sessions = {1, 2}
    /\ ~IsSorted(sessions[1].ctx.keySet)
    /\ sessions[1].finalSig # Nil
    /\ sessions[2].ctx = sessions[1].ctx
    /\ sessions[2].ourSig = Nil
    /\ Len(sessions[2].pubNonces) = 1
    /\ sessions[2].sigs = << >>

(***************************************************************************)
(* Silent payment shares (silentpayments.go).  Byte strings are sequences  *)
(* of numbers 0 .. 255; an outpoint is a 32-byte hash and a 32-bit index.  *)
(***************************************************************************)
MaxOutPoints == 2

\* secp.PubKeyBytesLenCompressed
PubKeyBytesLenCompressed == 33

\* sha256.Size
HashSize == 32

uint32Size == 4

outPointSize == HashSize + uint32Size

\* The length of a DLEQ proof.
ProofSize == 64

\* binary.LittleEndian.PutUint32
PutUint32(x) ==
    << x % 256, (x \div 256) % 256, (x \div 65536) % 256,
       (x \div 16777216) % 256 >>

\* binary.LittleEndian.Uint32
Uint32(b) == b[1] + 256 * b[2] + 65536 * b[3] + 16777216 * b[4]

\* bytes.Compare(a, b) < 0 on strings of one length
RECURSIVE BytesLess(_, _)
BytesLess(a, b) ==
    IF a = << >> \/ b = << >> THEN FALSE
    ELSE IF Head(a) # Head(b) THEN Head(a) < Head(b)
    ELSE BytesLess(Tail(a), Tail(b))

\* The less function equalOutPoints sorts with.
OutPointLess(opI, opJ) ==
    IF opI.Hash = opJ.Hash THEN opI.Index < opJ.Index
    ELSE BytesLess(opI.Hash, opJ.Hash)

RECURSIVE InsertOutPoint(_, _)
InsertOutPoint(sorted, op) ==
    IF sorted = << >> THEN << op >>
    ELSE IF OutPointLess(op, sorted[Len(sorted)])
         THEN Append(InsertOutPoint(SubSeq(sorted, 1, Len(sorted) - 1), op),
                     sorted[Len(sorted)])
         ELSE Append(sorted, op)

\* sort.Slice of a short slice, in place.
RECURSIVE SortOutPoints(_)
SortOutPoints(ops) ==
    IF ops = << >> THEN << >>
    ELSE InsertOutPoint(SortOutPoints(SubSeq(ops, 1, Len(ops) - 1)),
                        ops[Len(ops)])

\* equalOutPoints: its result and what it leaves in the two slices.
equalOutPoints(a, b) ==
    IF Len(a) # Len(b)
    THEN [equal |-> FALSE, a |-> a, b |-> b]
    ELSE LET sa == SortOutPoints(a)
             sb == SortOutPoints(b)
         IN  [equal |-> \A i \in 1 .. Len(sa) : sa[i] = sb[i],
              a |-> sa, b |-> sb]

\* SilentPaymentShare.EqualKey: its result and the two shares after it.
EqualKey(s, other) ==
    IF s.ScanKey # other.ScanKey
    THEN [equal |-> FALSE, s |-> s, other |-> other]
    ELSE LET r == equalOutPoints(s.OutPoints, other.OutPoints)
         IN  [equal |-> r.equal,
              s |-> [s EXCEPT !.OutPoints = r.a],
              other |-> [other EXCEPT !.OutPoints = r.b]]

RECURSIVE SerializeOutPoints(_)
SerializeOutPoints(ops) ==
    IF ops = << >> THEN << >>
    ELSE Head(ops).Hash \o PutUint32(Head(ops).Index)
         \o SerializeOutPoints(Tail(ops))

\* SerializeSilentPaymentShare: << keyData, value >>
SerializeSilentPaymentShare(share) ==
    << share.ScanKey \o SerializeOutPoints(share.OutPoints), share.Share >>

\* The outpoints the Read functions take from the key data: outpoint idx is
\* read at the offset i = idx * outPointSize of keyData.
ReadOutPoints(keyData, outPointsLen) ==
    [n \in 1 .. (outPointsLen \div outPointSize) |->
        LET i == (n - 1) * outPointSize
        IN  [Hash |-> SubSeq(keyData, i + 1, i + HashSize),
             Index |-> Uint32(SubSeq(keyData, i + HashSize + 1,
                                     i + HashSize + uint32Size))]]

ReadKeyData(keyData, value, valueLen, valueField) ==
    LET outPointsLen == Len(keyData) - PubKeyBytesLenCompressed
    IN  IF Len(keyData) < PubKeyBytesLenCompressed
        THEN [err |-> "ErrInvalidKeyData", val |-> Nil]
        ELSE IF outPointsLen % outPointSize # 0
        THEN [err |-> "ErrInvalidKeyData", val |-> Nil]
        ELSE IF Len(value) # valueLen
        THEN [err |-> "ErrInvalidPsbtFormat", val |-> Nil]
        ELSE [err |-> "nil",
              val |-> Some(
                  [f \in {"ScanKey", "OutPoints", valueField} |->
                      CASE f = "ScanKey" ->
                             SubSeq(keyData, 1, PubKeyBytesLenCompressed)
                        [] f = "OutPoints" ->
                             ReadOutPoints(keyData, outPointsLen)
                        [] OTHER -> value])]

ReadSilentPaymentShare(keyData, value) ==
    ReadKeyData(keyData, value, PubKeyBytesLenCompressed, "Share")

\* SerializeSilentPaymentDLEQ: << keyData, value >>
SerializeSilentPaymentDLEQ(dleq) ==
    << dleq.ScanKey \o SerializeOutPoints(dleq.OutPoints), dleq.Proof >>

ReadSilentPaymentDLEQ(keyData, value) ==
    ReadKeyData(keyData, value, ProofSize, "Proof")

(***************************************************************************)
(* SpecShares: a caller that holds two shares, serializes them and the     *)
(* DLEQ proofs for them, reads back what was serialized and compares the   *)
(* two shares.  The shares are passed by reference.                        *)
(***************************************************************************)
ScanKeys ==
    {[i \in 1 .. PubKeyBytesLenCompressed |-> 2],
     [i \in 1 .. PubKeyBytesLenCompressed |-> IF i = 1 THEN 3 ELSE 7]}

Hashes ==
    {[i \in 1 .. HashSize |-> 1],
     [i \in 1 .. HashSize |-> IF i = HashSize THEN 5 ELSE 0]}

Indexes == {0, 258}

OutPoints == [Hash : Hashes, Index : Indexes]

OutPointLists == UNION {[1 .. n -> OutPoints] : n \in 0 .. MaxOutPoints}

ShareValues == {[i \in 1 .. PubKeyBytesLenCompressed |-> 4]}

Proofs == {[i \in 1 .. ProofSize |-> 6]}

Shares == [ScanKey : ScanKeys, OutPoints : OutPointLists, Share : ShareValues]

DLEQs == [ScanKey : ScanKeys, OutPoints : OutPointLists, Proof : Proofs]

\* The DLEQ proof for a share: same scan key, same outpoints.
ProofFor(share, proof) ==
    [ScanKey |-> share.ScanKey, OutPoints |-> share.OutPoints,
     Proof |-> proof]

InitShares ==
    /\ sessions = << >>
    /\ network = {}
    /\ signers = << >>
    /\ made = << >>
    /\ shares \in Shares \X Shares

CallSerializeSilentPaymentShare ==
    \E i \in DOMAIN shares :
        /\ made' = Made("SerializeSilentPaymentShare", shares[i], << >>,
                        "nil", SerializeSilentPaymentShare(shares[i]))
        /\ UNCHANGED << sessions, network, signers, shares >>

CallSerializeSilentPaymentDLEQ ==
    \E i \in DOMAIN shares, proof \in Proofs :
        LET dleq == ProofFor(shares[i], proof)
        IN  /\ made' = Made("SerializeSilentPaymentDLEQ", dleq, << >>, "nil",
                            SerializeSilentPaymentDLEQ(dleq))
            /\ UNCHANGED << sessions, network, signers, shares >>

\* What was serialized last, whether a share or a proof.
Serialized ==
    /\ made # << >>
    /\ made[1].op \in {"SerializeSilentPaymentShare",
                       "SerializeSilentPaymentDLEQ"}

CallReadSilentPaymentShare ==
    /\ Serialized
    /\ LET r == ReadSilentPaymentShare(made[1].val[1], made[1].val[2])
       IN  made' = Made("ReadSilentPaymentShare", made[1].val, << >>, r.err,
                        r.val)
    /\ UNCHANGED << sessions, network, signers, shares >>

CallReadSilentPaymentDLEQ ==
    /\ Serialized
    /\ LET r == ReadSilentPaymentDLEQ(made[1].val[1], made[1].val[2])
       IN  made' = Made("ReadSilentPaymentDLEQ", made[1].val, << >>, r.err,
                        r.val)
    /\ UNCHANGED << sessions, network, signers, shares >>

CallEqualKey ==
    LET r == EqualKey(shares[1], shares[2])
    IN  /\ shares' = << r.s, r.other >>
        /\ made' = Made("EqualKey", shares, << >>, "nil", r.equal)
        /\ UNCHANGED << sessions, network, signers >>

NextShares ==
    \/ CallSerializeSilentPaymentShare
    \/ CallSerializeSilentPaymentDLEQ
    \/ CallReadSilentPaymentShare
    \/ CallReadSilentPaymentDLEQ
    \/ CallEqualKey

SpecShares == InitShares /\ [][NextShares]_vars

(***************************************************************************)
(* Properties of the silent payment shares, checked under SpecShares.      *)
(***************************************************************************)
\* C23: reading what SerializeSilentPaymentShare produced for a share
\* succeeds and returns that share: its scan key, its outpoints in their
\* order and its share value; and likewise for a DLEQ proof.
C23_ShareRoundTrips ==
    /\ MadeBy("ReadSilentPaymentShare") =>
          \A share \in Shares :
              SerializeSilentPaymentShare(share) = made[1].input =>
                  /\ made[1].err = "nil"
                  /\ made[1].val = Some(share)
    /\ MadeBy("ReadSilentPaymentDLEQ") =>
          \A dleq \in DLEQs :
              SerializeSilentPaymentDLEQ(dleq) = made[1].input =>
                  /\ made[1].err = "nil"
                  /\ made[1].val = Some(dleq)

\* C24: EqualKey returns true exactly when the scan keys are equal and the
\* outpoint lists are reorderings of each other, and it leaves the outpoints
\* of both shares in the order they had.
C24_EqualKeyIsPure ==
    [][MadeBy("EqualKey")' =>
          LET s == made'[1].input[1]
              other == made'[1].input[2]
          IN  /\ made'[1].val <=>
                    /\ s.ScanKey = other.ScanKey
                    /\ other.OutPoints \in Permuted(s.OutPoints)
              /\ shares' = made'[1].input]_vars

====
